---- MODULE Spec2Model ----
(***************************************************************************)
(* TinyHashMap (32-bit keys) and TinyHashMap64 (64-bit keys): open         *)
(* addressing hash maps whose handle is a pointer to the first value, with *)
(* the header {len, maxlen|cap, keys} and the null value stored before it. *)
(* A map is modelled as a record                                           *)
(*    ptr   : the handle is non-NULL                                       *)
(*    len, maxlen (cap for the 64-bit map) : the header fields             *)
(*    keys  : the key array, a function over the allocated key slots       *)
(*    vals  : the value region, a function from -1 (the null value)        *)
(* size_t arithmetic is done modulo 2^SizeBits.                            *)
(* TinyBuf, the dynamic array, is a record with ptr, len, cap and elems,   *)
(* the element region as a function over the allocated slots.              *)
(***************************************************************************)
EXTENDS Integers, Sequences, FiniteSets, TLC

VARIABLES prog,     \* the calling program of this run
          map,      \* the 32-bit map handle and what it points to
          map64,    \* the 64-bit map handle and what it points to
          buf,      \* the array handle and what it points to
          shadow,   \* ghost: what the caller stored (key -> value, null value)
          fault     \* "none", or how the program left defined behaviour

vars == <<prog, map, map64, buf, shadow, fault>>

----------------------------------------------------------------------------
(* Platform and environment *)

SizeBits == 16                  \* width of size_t
SizeMod == 2 ^ SizeBits
HeapMax == 1024                 \* largest block the allocator can hand out
ElemSize == 6                   \* sizeof(*(b)): mytype_t {int a, b, c}
KeySize == 4                    \* sizeof(uint32_t)
KeySize64 == 8                  \* sizeof(uint64_t)
sizeof_hdr == 3 * (SizeBits \div 8)  \* struct hmap__hdr: two size_t and a pointer

Indet == "indet"                \* bytes of a value slot that was never written
Zeroed == "zero"                \* memset(.., 0, elem_size)
Absent == "absent"              \* ghost: key not in the map

\* The calling programs.  Each run is one program calling one map; a program
\* is the library it includes and the arguments it passes:
\*   collide, collide64 : keys that collide modulo 16 and 32 and wrap around
\*                        the end of the table, two values, every operation
\*   load, load64       : enough keys to load a 16 slot table to its limit
\*   wide, wide64       : reserve requests near the largest size_t
\*   array              : pushes, resizes and removals on a dynamic array
Vals == {"a", "b"}
Keys == {1, 17, 33, 2, 15, 31}
Keys64 == {1, 17, 2}
LoadKeys == {1, 17, 2, 3, 4, 5, 6, 7, 8}
LoadKeys64 == {1, 2, 3, 4, 5, 6, 7, 8, 9}
WideKeys == {1, 17}
WideFits == {0, 8, SizeMod \div 4, SizeMod \div 2 - 1, SizeMod \div 2}
AllKeys == Keys \cup Keys64 \cup LoadKeys \cup LoadKeys64 \cup WideKeys
MaxFit == 30
MaxLen64 == 2                   \* collide64 stops adding keys at this length
BufVals == {"a", "b", "c"}
MaxBufLen == 4                  \* array stops pushing at this length

Program ==
    [collide   |-> [lib |-> "tinyhashmap",
                    set |-> {<<k, "a">> : k \in Keys} \cup {<<1, "b">>, <<0, "b">>},
                    del |-> Keys \cup {0}, ptr |-> {0, 33}, get |-> {0, 1},
                    fit |-> {0, 7, 8, MaxFit, 1000}, nullv |-> {"b"},
                    maxlen |-> SizeMod],
     load      |-> [lib |-> "tinyhashmap",
                    set |-> {<<k, "a">> : k \in LoadKeys},
                    del |-> LoadKeys, ptr |-> {}, get |-> {1},
                    fit |-> {}, nullv |-> {},
                    maxlen |-> SizeMod],
     collide64 |-> [lib |-> "tinyhashmap64",
                    set |-> {<<k, "a">> : k \in Keys64} \cup {<<1, "b">>, <<0, "b">>},
                    del |-> Keys64 \cup {0}, ptr |-> {0, 17}, get |-> {0, 1},
                    fit |-> {0, 7, 8, MaxFit, 1000}, nullv |-> {"b"},
                    maxlen |-> MaxLen64],
     load64    |-> [lib |-> "tinyhashmap64",
                    set |-> {<<k, "a">> : k \in LoadKeys64},
                    del |-> LoadKeys64, ptr |-> {}, get |-> {1},
                    fit |-> {}, nullv |-> {},
                    maxlen |-> SizeMod],
     wide      |-> [lib |-> "tinyhashmap",
                    set |-> {<<k, "a">> : k \in WideKeys} \cup {<<0, "b">>},
                    del |-> WideKeys, ptr |-> {17}, get |-> {0, 1},
                    fit |-> WideFits, nullv |-> {"b"},
                    maxlen |-> SizeMod],
     wide64    |-> [lib |-> "tinyhashmap64",
                    set |-> {<<k, "a">> : k \in WideKeys} \cup {<<0, "b">>},
                    del |-> WideKeys, ptr |-> {17}, get |-> {0, 1},
                    fit |-> WideFits, nullv |-> {"b"},
                    maxlen |-> MaxLen64]]

\* the allocator during one call: "ok" grants every request that fits the heap
\* and answers calloc(0, n) with a block of no bytes, "zero_null" answers
\* calloc(0, n) with NULL, "no_malloc" and "no_calloc" refuse that request
Heaps == {"ok", "zero_null", "no_malloc", "no_calloc"}
HeapsOK == {"ok", "zero_null"}

NULL == [ptr |-> FALSE, len |-> 0, maxlen |-> 0, keys |-> <<>>, vals |-> <<>>]

RECURSIVE BitAnd(_, _)
BitAnd(a, b) ==
    IF a = 0 \/ b = 0 THEN 0
    ELSE (a % 2) * (b % 2) + 2 * BitAnd(a \div 2, b \div 2)

----------------------------------------------------------------------------
(* tinyhashmap.h *)

HMAP_LEN(b) == IF b.ptr THEN b.len ELSE 0
HMAP_MAX(b) == IF b.ptr THEN b.maxlen ELSE 0
HMAP_CAP(b) == IF b.ptr THEN (b.maxlen + 1) % SizeMod ELSE 0

\* mutant: the loop doubles the maxlen without setting the low bit
RECURSIVE hmap__grow_max_even(_, _)
hmap__grow_max_even(new_max, reserve) ==
    IF new_max # 0 /\ new_max \div 2 <= reserve
    THEN LET next == (new_max * 2) % SizeMod IN
         IF next = 0 THEN -1 ELSE hmap__grow_max_even(next, reserve)
    ELSE new_max

\* the capacity loop of hmap__grow: the new maxlen, or -1 when the loop
\* returns at its overflow test, or -2 when it never ends
RECURSIVE hmap__grow_max(_, _)

\* mutant: the loop stops as soon as half the new maxlen reaches the reserve
RECURSIVE hmap__grow_max_early(_, _)
hmap__grow_max_early(new_max, reserve) ==
    IF new_max # 0 /\ new_max \div 2 < reserve
    THEN LET next == (new_max * 2 + 1) % SizeMod IN
         IF next = 0 THEN -1
         ELSE IF next = new_max THEN -2
         ELSE hmap__grow_max_early(next, reserve)
    ELSE new_max

hmap__grow_max(new_max, reserve) ==
    IF new_max # 0 /\ new_max \div 2 <= reserve
    THEN LET next == (new_max * 2 + 1) % SizeMod IN
         IF next = 0 THEN -1
         ELSE IF next = new_max THEN -2
         ELSE hmap__grow_max(next, reserve)
    ELSE new_max

\* the placement loop of hmap__grow for one key: the free slot, or -1 when
\* the read leaves the key array
RECURSIVE hmap__grow_slot(_, _, _)
hmap__grow_slot(new_hdr, j, n) ==
    LET jj == BitAnd(j, new_hdr.maxlen) IN
    IF jj \notin DOMAIN new_hdr.keys \/ n > new_hdr.maxlen THEN -1
    ELSE IF new_hdr.keys[jj] = 0 THEN jj
    ELSE hmap__grow_slot(new_hdr, jj + 1, n + 1)

\* mutant: the rehash stores each key at its first probe index, free or not
RECURSIVE hmap__grow_rehash_noprobe(_, _, _)
hmap__grow_rehash_noprobe(old_hdr, new_hdr, i) ==
    IF i > old_hdr.maxlen THEN [b |-> new_hdr, st |-> "ok"]
    ELSE IF old_hdr.keys[i] = 0 THEN hmap__grow_rehash_noprobe(old_hdr, new_hdr, i + 1)
    ELSE LET key == old_hdr.keys[i]
             j == BitAnd(key, new_hdr.maxlen)
         IN IF j \notin DOMAIN new_hdr.keys \/ j \notin DOMAIN new_hdr.vals
            THEN [b |-> old_hdr, st |-> "ub"]
            ELSE hmap__grow_rehash_noprobe(old_hdr,
                     [new_hdr EXCEPT !.keys[j] = key, !.vals[j] = old_hdr.vals[i]],
                     i + 1)

\* the rehash loop of hmap__grow from old slot i on
RECURSIVE hmap__grow_rehash(_, _, _)
hmap__grow_rehash(old_hdr, new_hdr, i) ==
    IF i > old_hdr.maxlen THEN [b |-> new_hdr, st |-> "ok"]
    ELSE IF old_hdr.keys[i] = 0 THEN hmap__grow_rehash(old_hdr, new_hdr, i + 1)
    ELSE LET key == old_hdr.keys[i]
             j == hmap__grow_slot(new_hdr, key, 0)
         IN IF j = -1 \/ j \notin DOMAIN new_hdr.vals
            THEN [b |-> old_hdr, st |-> "ub"]
            ELSE hmap__grow_rehash(old_hdr,
                     [new_hdr EXCEPT !.keys[j] = key, !.vals[j] = old_hdr.vals[i]],
                     i + 1)

\* mutant: the new table gets a zeroed null value, the old one is not copied
hmap__grow_nonull(old, reserve, heap) ==
    LET new_max == hmap__grow_max(IF old.ptr THEN (old.maxlen * 2 + 1) % SizeMod ELSE 15,
                                  reserve)
        bytes == (sizeof_hdr + ((new_max + 2) % SizeMod) * ElemSize) % SizeMod
        nmemb == (new_max + 1) % SizeMod
        nvals == (bytes - sizeof_hdr) \div ElemSize
        fresh == [ptr |-> TRUE, len |-> 0, maxlen |-> new_max,
                  keys |-> [i \in 0 .. nmemb - 1 |-> 0],
                  vals |-> [i \in -1 .. nvals - 2 |-> Indet]]
    IN
    IF new_max = -1 THEN [b |-> old, st |-> "ok"]               \* overflow
    ELSE IF new_max = -2 THEN [b |-> old, st |-> "hang"]
    ELSE IF heap = "no_malloc" \/ bytes > HeapMax
         THEN [b |-> old, st |-> "ok"]                          \* out of memory
    ELSE IF heap = "no_calloc" \/ nmemb * KeySize > HeapMax
                 \/ (nmemb = 0 /\ heap = "zero_null")
         THEN [b |-> old, st |-> "ok"]                          \* out of memory
    ELSE IF old.ptr
         THEN LET r == hmap__grow_rehash(old, fresh, 0) IN
              IF r.st # "ok" THEN r
              ELSE [b |-> [r.b EXCEPT !.vals[-1] = Zeroed, !.len = old.len],
                    st |-> "ok"]
         ELSE [b |-> [fresh EXCEPT !.vals[-1] = Zeroed], st |-> "ok"]

hmap__grow(old, reserve, heap) ==
    LET new_max == hmap__grow_max(IF old.ptr THEN (old.maxlen * 2 + 1) % SizeMod ELSE 15,
                                  reserve)
        bytes == (sizeof_hdr + ((new_max + 2) % SizeMod) * ElemSize) % SizeMod
        nmemb == (new_max + 1) % SizeMod
        nvals == (bytes - sizeof_hdr) \div ElemSize
        fresh == [ptr |-> TRUE, len |-> 0, maxlen |-> new_max,
                  keys |-> [i \in 0 .. nmemb - 1 |-> 0],
                  vals |-> [i \in -1 .. nvals - 2 |-> Indet]]
    IN
    IF new_max = -1 THEN [b |-> old, st |-> "ok"]               \* overflow
    ELSE IF new_max = -2 THEN [b |-> old, st |-> "hang"]
    ELSE IF heap = "no_malloc" \/ bytes > HeapMax
         THEN [b |-> old, st |-> "ok"]                          \* out of memory
    ELSE IF heap = "no_calloc" \/ nmemb * KeySize > HeapMax
                 \/ (nmemb = 0 /\ heap = "zero_null")
         THEN [b |-> old, st |-> "ok"]                          \* out of memory
    ELSE IF old.ptr
         THEN LET r == hmap__grow_rehash(old, fresh, 0) IN
              IF r.st # "ok" THEN r
              ELSE [b |-> [r.b EXCEPT !.vals[-1] = old.vals[-1], !.len = old.len],
                    st |-> "ok"]
         ELSE [b |-> [fresh EXCEPT !.vals[-1] = Zeroed], st |-> "ok"]

\* mutant: the probe does not end at an empty slot
RECURSIVE hmap__idx_probe_noempty(_, _, _, _)
hmap__idx_probe_noempty(hdr, key, i, n) ==
    LET j == BitAnd(i, hdr.maxlen) IN
    IF j \notin DOMAIN hdr.keys THEN [st |-> "ub", i |-> j]
    ELSE IF hdr.keys[j] = key THEN [st |-> "match", i |-> j]
    ELSE IF n >= hdr.maxlen THEN [st |-> "hang", i |-> j]
    ELSE hmap__idx_probe_noempty(hdr, key, j + 1, n + 1)

\* the probe loop of hmap__idx from index i on: where it stops and why
RECURSIVE hmap__idx_probe(_, _, _, _)
hmap__idx_probe(hdr, key, i, n) ==
    LET j == BitAnd(i, hdr.maxlen) IN
    IF j \notin DOMAIN hdr.keys THEN [st |-> "ub", i |-> j]
    ELSE IF hdr.keys[j] = key THEN [st |-> "match", i |-> j]
    ELSE IF hdr.keys[j] = 0 THEN [st |-> "empty", i |-> j]
    ELSE IF n >= hdr.maxlen THEN [st |-> "hang", i |-> j]
    ELSE hmap__idx_probe(hdr, key, j + 1, n + 1)

RECURSIVE hmap__idx(_, _, _, _)
RECURSIVE hmap__idx_del_nolen(_, _, _)
RECURSIVE hmap__idx_del_stop(_, _, _)
RECURSIVE hmap__idx_del(_, _, _)

\* mutant: the scan ends at the first key that stays in its slot
hmap__idx_del_stop(hdr, i0, n) ==
    LET i == BitAnd(i0 + 1, hdr.maxlen)
        key == hdr.keys[i]
    IN
    IF key = 0 THEN [hdr |-> hdr, ret |-> i, st |-> "ok"]
    ELSE IF n > hdr.maxlen THEN [hdr |-> hdr, ret |-> i, st |-> "hang"]
    ELSE LET r == hmap__idx(hdr, key, TRUE, FALSE) IN
         IF r.st # "ok" THEN r
         ELSE IF r.ret = i THEN [hdr |-> hdr, ret |-> i, st |-> "ok"]
         ELSE hmap__idx_del_stop([r.hdr EXCEPT !.len = @ - 1,
                                               !.keys[i] = 0,
                                               !.vals[r.ret] = r.hdr.vals[i]],
                                 i, n + 1)

\* mutant: the removed slot is cleared and its successors are left in place
hmap__idx_del_noshift(hdr, i0, n) == [hdr |-> hdr, ret |-> i0, st |-> "ok"]

\* mutant: a key the scan moves is counted twice
hmap__idx_del_nolen(hdr, i0, n) ==
    LET i == BitAnd(i0 + 1, hdr.maxlen)
        key == hdr.keys[i]
    IN
    IF key = 0 THEN [hdr |-> hdr, ret |-> i, st |-> "ok"]
    ELSE IF n > hdr.maxlen THEN [hdr |-> hdr, ret |-> i, st |-> "hang"]
    ELSE LET r == hmap__idx(hdr, key, TRUE, FALSE) IN
         IF r.st # "ok" THEN r
         ELSE IF r.ret = i THEN hmap__idx_del_nolen(hdr, i, n + 1)
         ELSE hmap__idx_del_nolen([r.hdr EXCEPT !.keys[i] = 0,
                                                !.vals[r.ret] = r.hdr.vals[i]],
                                  i, n + 1)

\* the scan of hmap__idx that follows the removal of the key in slot i0
hmap__idx_del(hdr, i0, n) ==
    LET i == BitAnd(i0 + 1, hdr.maxlen)
        key == hdr.keys[i]
    IN
    IF key = 0 THEN [hdr |-> hdr, ret |-> i, st |-> "ok"]
    ELSE IF n > hdr.maxlen THEN [hdr |-> hdr, ret |-> i, st |-> "hang"]
    ELSE LET r == hmap__idx(hdr, key, TRUE, FALSE) IN
         IF r.st # "ok" THEN r
         ELSE IF r.ret = i THEN hmap__idx_del(hdr, i, n + 1)
         ELSE hmap__idx_del([r.hdr EXCEPT !.len = @ - 1,
                                          !.keys[i] = 0,
                                          !.vals[r.ret] = r.hdr.vals[i]],
                            i, n + 1)

\* mutant: with add requested a matched key is counted as a new one
hmap__idx_countmatch(hdr, key, add, del) ==
    IF key = 0 THEN [hdr |-> hdr, ret |-> -1, st |-> "ok"]
    ELSE LET p == hmap__idx_probe(hdr, key, key, 0) IN
         IF p.st = "ub" \/ p.st = "hang" THEN [hdr |-> hdr, ret |-> -1, st |-> p.st]
         ELSE IF p.st = "match"
              THEN IF del
                   THEN hmap__idx_del([hdr EXCEPT !.len = @ - 1, !.keys[p.i] = 0], p.i, 0)
                   ELSE [hdr |-> IF add THEN [hdr EXCEPT !.len = @ + 1] ELSE hdr,
                         ret |-> p.i, st |-> "ok"]
              ELSE IF add
                   THEN [hdr |-> [hdr EXCEPT !.len = @ + 1, !.keys[p.i] = key],
                         ret |-> p.i, st |-> "ok"]
                   ELSE [hdr |-> hdr, ret |-> -1, st |-> "ok"]

\* mutant: key 0 is probed for like any other key
hmap__idx_nozero(hdr, key, add, del) ==
    LET p == hmap__idx_probe(hdr, key, key, 0) IN
    IF p.st = "ub" \/ p.st = "hang" THEN [hdr |-> hdr, ret |-> -1, st |-> p.st]
    ELSE IF p.st = "match"
         THEN IF del
              THEN hmap__idx_del([hdr EXCEPT !.len = @ - 1, !.keys[p.i] = 0], p.i, 0)
              ELSE [hdr |-> hdr, ret |-> p.i, st |-> "ok"]
         ELSE IF add
              THEN [hdr |-> [hdr EXCEPT !.len = @ + 1, !.keys[p.i] = key],
                    ret |-> p.i, st |-> "ok"]
              ELSE [hdr |-> hdr, ret |-> -1, st |-> "ok"]

\* mutant: after a removal the value is the slot that matched
hmap__idx_delmatch(hdr, key, add, del) ==
    IF key = 0 THEN [hdr |-> hdr, ret |-> -1, st |-> "ok"]
    ELSE LET p == hmap__idx_probe(hdr, key, key, 0) IN
         IF p.st = "ub" \/ p.st = "hang" THEN [hdr |-> hdr, ret |-> -1, st |-> p.st]
         ELSE IF p.st = "match"
              THEN IF del
                   THEN [hmap__idx_del([hdr EXCEPT !.len = @ - 1, !.keys[p.i] = 0], p.i, 0)
                            EXCEPT !.ret = p.i]
                   ELSE [hdr |-> hdr, ret |-> p.i, st |-> "ok"]
              ELSE IF add
                   THEN [hdr |-> [hdr EXCEPT !.len = @ + 1, !.keys[p.i] = key],
                         ret |-> p.i, st |-> "ok"]
                   ELSE [hdr |-> hdr, ret |-> -1, st |-> "ok"]

hmap__idx(hdr, key, add, del) ==
    IF key = 0 THEN [hdr |-> hdr, ret |-> -1, st |-> "ok"]
    ELSE LET p == hmap__idx_probe(hdr, key, key, 0) IN
         IF p.st = "ub" \/ p.st = "hang" THEN [hdr |-> hdr, ret |-> -1, st |-> p.st]
         ELSE IF p.st = "match"
              THEN IF del
                   THEN hmap__idx_del([hdr EXCEPT !.len = @ - 1, !.keys[p.i] = 0], p.i, 0)
                   ELSE [hdr |-> hdr, ret |-> p.i, st |-> "ok"]
              ELSE IF add
                   THEN [hdr |-> [hdr EXCEPT !.len = @ + 1, !.keys[p.i] = key],
                         ret |-> p.i, st |-> "ok"]
                   ELSE [hdr |-> hdr, ret |-> -1, st |-> "ok"]

\* mutant: growth starts one key late
HMAP__FIT1_late(b, heap) ==
    IF b.ptr /\ (HMAP_LEN(b) * 2) % SizeMod <= HMAP_MAX(b) + 2
    THEN [b |-> b, st |-> "ok"]
    ELSE hmap__grow(b, 0, heap)

HMAP__FIT1(b, heap) ==
    IF b.ptr /\ (HMAP_LEN(b) * 2) % SizeMod <= HMAP_MAX(b)
    THEN [b |-> b, st |-> "ok"]
    ELSE hmap__grow(b, 0, heap)

HMAP_FIT(b, n, heap) ==
    IF n = 0 \/ (b.ptr /\ (n * 2) % SizeMod <= HMAP_MAX(b))
    THEN [b |-> b, st |-> "ok"]
    ELSE hmap__grow(b, n, heap)

HMAP_TRYFIT(b, n, heap) ==
    LET f == HMAP_FIT(b, n, heap) IN
    [b |-> f.b, st |-> f.st,
     ret |-> (n = 0 \/ (f.b.ptr /\ (n * 2) % SizeMod <= HMAP_MAX(f.b)))]

\* b[i] = val, the store that ends HMAP_SET and HMAP_SETNULLVAL
hmap__store(f, i, val) ==
    IF ~f.ptr \/ i \notin DOMAIN f.vals THEN [b |-> f, st |-> "ub"]
    ELSE [b |-> [f EXCEPT !.vals[i] = val], st |-> "ok"]

HMAP_SETNULLVAL(b, val, heap) ==
    LET f == HMAP__FIT1(b, heap) IN
    IF f.st # "ok" THEN f ELSE hmap__store(f.b, -1, val)

\* mutant: the memset covers maxlen keys, one less than the table has
HMAP_CLEAR_short(b) ==
    IF b.ptr
    THEN [b EXCEPT !.keys = [i \in DOMAIN b.keys |-> IF i < b.maxlen THEN 0 ELSE b.keys[i]],
                   !.len = 0]
    ELSE b

HMAP_CLEAR(b) ==
    IF b.ptr THEN [b EXCEPT !.keys = [i \in DOMAIN b.keys |-> 0], !.len = 0] ELSE b

HMAP_SET(b, key, val, heap) ==
    LET f == HMAP__FIT1(b, heap) IN
    IF f.st # "ok" THEN [b |-> f.b, st |-> f.st]
    ELSE IF ~f.b.ptr THEN [b |-> f.b, st |-> "ub"]
    ELSE LET r == hmap__idx(f.b, key, TRUE, FALSE) IN
         IF r.st # "ok" THEN [b |-> r.hdr, st |-> r.st]
         ELSE hmap__store(r.hdr, r.ret, val)

HMAP_GET(b, key, heap) ==
    LET f == HMAP__FIT1(b, heap) IN
    IF f.st # "ok" THEN [b |-> f.b, st |-> f.st, ret |-> Indet]
    ELSE IF ~f.b.ptr THEN [b |-> f.b, st |-> "ub", ret |-> Indet]
    ELSE LET r == hmap__idx(f.b, key, FALSE, FALSE) IN
         IF r.st # "ok" \/ r.ret \notin DOMAIN f.b.vals
         THEN [b |-> f.b, st |-> IF r.st # "ok" THEN r.st ELSE "ub", ret |-> Indet]
         ELSE [b |-> f.b, st |-> "ok", ret |-> f.b.vals[r.ret]]

HMAP_HAS(b, key) ==
    IF b.ptr
    THEN LET r == hmap__idx(b, key, FALSE, FALSE) IN [st |-> r.st, ret |-> r.ret # -1]
    ELSE [st |-> "ok", ret |-> FALSE]

HMAP_DEL(b, key) ==
    IF b.ptr
    THEN LET r == hmap__idx(b, key, FALSE, TRUE) IN
         [b |-> r.hdr, st |-> r.st, ret |-> r.ret # -1]
    ELSE [b |-> b, st |-> "ok", ret |-> FALSE]

HMAP_PTR(b, key, heap) ==
    LET f == HMAP__FIT1(b, heap) IN
    IF f.st # "ok" THEN [b |-> f.b, st |-> f.st, ret |-> -1]
    ELSE IF ~f.b.ptr THEN [b |-> f.b, st |-> "ub", ret |-> -1]
    ELSE LET r == hmap__idx(f.b, key, TRUE, FALSE) IN
         [b |-> r.hdr, st |-> r.st, ret |-> r.ret]

HMAP_IDX(b, key) ==
    IF b.ptr
    THEN LET r == hmap__idx(b, key, FALSE, FALSE) IN [st |-> r.st, ret |-> r.ret]
    ELSE [st |-> "ok", ret |-> -1]

----------------------------------------------------------------------------
(* tinyhashmap64.h *)

NULL64 == [ptr |-> FALSE, len |-> 0, cap |-> 0, keys |-> <<>>, vals |-> <<>>]

HMAP64_LEN(b) == IF b.ptr THEN b.len ELSE 0
HMAP64_CAP(b) == IF b.ptr THEN b.cap ELSE 0

\* the capacity loop of hmap64__grow: the new cap, or -1 when the loop
\* returns at its overflow test
RECURSIVE hmap64__grow_cap(_, _)
hmap64__grow_cap(new_cap, res) ==
    IF new_cap # 0 /\ new_cap \div 2 < res
    THEN LET next == (new_cap * 2) % SizeMod IN
         IF next = 0 THEN -1 ELSE hmap64__grow_cap(next, res)
    ELSE new_cap

\* the placement loop of hmap64__grow for one key: the free slot, or -1 when
\* the read leaves the key array
RECURSIVE hmap64__grow_slot(_, _, _)
hmap64__grow_slot(new_hdr, j, n) ==
    LET jj == BitAnd(j, new_hdr.cap - 1) IN
    IF jj \notin DOMAIN new_hdr.keys \/ n >= new_hdr.cap THEN -1
    ELSE IF new_hdr.keys[jj] = 0 THEN jj
    ELSE hmap64__grow_slot(new_hdr, jj + 1, n + 1)

\* the rehash loop of hmap64__grow from old slot i on
RECURSIVE hmap64__grow_rehash(_, _, _)
hmap64__grow_rehash(old_hdr, new_hdr, i) ==
    IF i >= old_hdr.cap THEN [b |-> new_hdr, st |-> "ok"]
    ELSE IF old_hdr.keys[i] = 0 THEN hmap64__grow_rehash(old_hdr, new_hdr, i + 1)
    ELSE LET key == old_hdr.keys[i]
             j == hmap64__grow_slot(new_hdr, key, 0)
         IN IF j = -1 \/ j \notin DOMAIN new_hdr.vals
            THEN [b |-> old_hdr, st |-> "ub"]
            ELSE hmap64__grow_rehash(old_hdr,
                     [new_hdr EXCEPT !.keys[j] = key, !.vals[j] = old_hdr.vals[i]],
                     i + 1)

hmap64__grow(old, res, heap) ==
    LET new_cap == hmap64__grow_cap(IF old.ptr THEN (old.cap * 2) % SizeMod ELSE 16, res)
        bytes == (sizeof_hdr + ((new_cap + 1) % SizeMod) * ElemSize) % SizeMod
        nvals == (bytes - sizeof_hdr) \div ElemSize
        fresh == [ptr |-> TRUE, len |-> 0, cap |-> new_cap,
                  keys |-> [i \in 0 .. new_cap - 1 |-> 0],
                  vals |-> [i \in -1 .. nvals - 2 |-> Indet]]
    IN
    IF new_cap = -1 THEN [b |-> old, st |-> "ok"]               \* overflow
    ELSE IF heap = "no_malloc" \/ bytes > HeapMax
         THEN [b |-> old, st |-> "ok"]                          \* out of memory
    ELSE IF heap = "no_calloc" \/ new_cap * KeySize64 > HeapMax
                 \/ (new_cap = 0 /\ heap = "zero_null")
         THEN [b |-> old, st |-> "ok"]                          \* out of memory
    ELSE IF old.ptr
         THEN LET r == hmap64__grow_rehash(old, fresh, 0) IN
              IF r.st # "ok" THEN r
              ELSE [b |-> [r.b EXCEPT !.vals[-1] = old.vals[-1], !.len = old.len],
                    st |-> "ok"]
         ELSE [b |-> [fresh EXCEPT !.vals[-1] = Zeroed], st |-> "ok"]

\* the probe loop of hmap64__idx from index i on: where it stops and why
RECURSIVE hmap64__idx_probe(_, _, _, _)
hmap64__idx_probe(hdr, key, i, n) ==
    LET j == BitAnd(i, hdr.cap - 1) IN
    IF j \notin DOMAIN hdr.keys THEN [st |-> "ub", i |-> j]
    ELSE IF hdr.keys[j] = key THEN [st |-> "match", i |-> j]
    ELSE IF hdr.keys[j] = 0 THEN [st |-> "empty", i |-> j]
    ELSE IF n >= hdr.cap - 1 THEN [st |-> "hang", i |-> j]
    ELSE hmap64__idx_probe(hdr, key, j + 1, n + 1)

hmap64__idx(hdr, key, add, del) ==
    IF key = 0 THEN [hdr |-> hdr, ret |-> -1, st |-> "ok"]
    ELSE LET p == hmap64__idx_probe(hdr, key, key, 0) IN
         IF p.st = "ub" \/ p.st = "hang" THEN [hdr |-> hdr, ret |-> -1, st |-> p.st]
         ELSE IF p.st = "match"
              THEN IF del
                   THEN [hdr |-> [hdr EXCEPT !.len = @ - 1, !.keys[p.i] = 0],
                         ret |-> p.i, st |-> "ok"]
                   ELSE [hdr |-> hdr, ret |-> p.i, st |-> "ok"]
              ELSE IF add
                   THEN [hdr |-> [hdr EXCEPT !.len = @ + 1, !.keys[p.i] = key],
                         ret |-> p.i, st |-> "ok"]
                   ELSE [hdr |-> hdr, ret |-> -1, st |-> "ok"]

HMAP64__FIT1(b, heap) ==
    IF b.ptr /\ (HMAP64_LEN(b) * 2) % SizeMod < HMAP64_CAP(b)
    THEN [b |-> b, st |-> "ok"]
    ELSE hmap64__grow(b, 0, heap)

HMAP64_FIT(b, n, heap) ==
    IF n = 0 \/ (b.ptr /\ (n * 2) % SizeMod < HMAP64_CAP(b))
    THEN [b |-> b, st |-> "ok"]
    ELSE hmap64__grow(b, n, heap)

HMAP64_TRYFIT(b, n, heap) ==
    LET f == HMAP64_FIT(b, n, heap) IN
    [b |-> f.b, st |-> f.st,
     ret |-> (n = 0 \/ (f.b.ptr /\ (n * 2) % SizeMod < HMAP64_CAP(f.b)))]

HMAP64_SETNULLVAL(b, val, heap) ==
    LET f == HMAP64__FIT1(b, heap) IN
    IF f.st # "ok" THEN f ELSE hmap__store(f.b, -1, val)

HMAP64_CLEAR(b) ==
    IF b.ptr THEN [b EXCEPT !.keys = [i \in DOMAIN b.keys |-> 0], !.len = 0] ELSE b

HMAP64_SET(b, key, val, heap) ==
    LET f == HMAP64__FIT1(b, heap) IN
    IF f.st # "ok" THEN [b |-> f.b, st |-> f.st]
    ELSE IF ~f.b.ptr THEN [b |-> f.b, st |-> "ub"]
    ELSE LET r == hmap64__idx(f.b, key, TRUE, FALSE) IN
         IF r.st # "ok" THEN [b |-> r.hdr, st |-> r.st]
         ELSE hmap__store(r.hdr, r.ret, val)

HMAP64_GET(b, key, heap) ==
    LET f == HMAP64__FIT1(b, heap) IN
    IF f.st # "ok" THEN [b |-> f.b, st |-> f.st, ret |-> Indet]
    ELSE IF ~f.b.ptr THEN [b |-> f.b, st |-> "ub", ret |-> Indet]
    ELSE LET r == hmap64__idx(f.b, key, FALSE, FALSE) IN
         IF r.st # "ok" \/ r.ret \notin DOMAIN f.b.vals
         THEN [b |-> f.b, st |-> IF r.st # "ok" THEN r.st ELSE "ub", ret |-> Indet]
         ELSE [b |-> f.b, st |-> "ok", ret |-> f.b.vals[r.ret]]

HMAP64_HAS(b, key) ==
    IF b.ptr
    THEN LET r == hmap64__idx(b, key, FALSE, FALSE) IN [st |-> r.st, ret |-> r.ret # -1]
    ELSE [st |-> "ok", ret |-> FALSE]

HMAP64_DEL(b, key) ==
    IF b.ptr
    THEN LET r == hmap64__idx(b, key, FALSE, TRUE) IN
         [b |-> r.hdr, st |-> r.st, ret |-> r.ret # -1]
    ELSE [b |-> b, st |-> "ok", ret |-> FALSE]

HMAP64_PTR(b, key, heap) ==
    LET f == HMAP64__FIT1(b, heap) IN
    IF f.st # "ok" THEN [b |-> f.b, st |-> f.st, ret |-> -1]
    ELSE IF ~f.b.ptr THEN [b |-> f.b, st |-> "ub", ret |-> -1]
    ELSE LET r == hmap64__idx(f.b, key, TRUE, FALSE) IN
         [b |-> r.hdr, st |-> r.st, ret |-> r.ret]

HMAP64_IDX(b, key) ==
    IF b.ptr
    THEN LET r == hmap64__idx(b, key, FALSE, FALSE) IN [st |-> r.st, ret |-> r.ret]
    ELSE [st |-> "ok", ret |-> -1]

----------------------------------------------------------------------------
(* tinybuf.h *)

NULLBUF == [ptr |-> FALSE, len |-> 0, cap |-> 0, elems |-> <<>>]

BUF_LEN(b) == IF b.ptr THEN b.len ELSE 0
BUF_CAP(b) == IF b.ptr THEN b.cap ELSE 0

\* mutant: the capacity is doubled until it is n or more
RECURSIVE buf__grow_double(_, _)
buf__grow_double(c, n) == IF c >= n THEN c ELSE buf__grow_double(c * 2, n)

buf__grow_doubling(b, n) ==
    LET new_cap == buf__grow_double(IF b.ptr THEN b.cap * 2 ELSE 16, n) IN
    IF 2 * (SizeBits \div 8) + new_cap * ElemSize > HeapMax THEN b
    ELSE [ptr |-> TRUE, len |-> BUF_LEN(b), cap |-> new_cap,
          elems |-> [i \in 0 .. new_cap - 1 |->
                        IF i < BUF_LEN(b) THEN b.elems[i] ELSE Indet]]

\* a new allocation for at least n elements with the old elements copied:
\* 16 slots at first, else twice the capacity, or n when that is more; the
\* old handle when the allocator has no block of that size
buf__grow(b, n) ==
    LET twice == IF b.ptr THEN b.cap * 2 ELSE 16
        new_cap == IF twice < n THEN n ELSE twice
    IN
    IF 2 * (SizeBits \div 8) + new_cap * ElemSize > HeapMax THEN b
    ELSE [ptr |-> TRUE, len |-> BUF_LEN(b), cap |-> new_cap,
          elems |-> [i \in 0 .. new_cap - 1 |->
                        IF i < BUF_LEN(b) THEN b.elems[i] ELSE Indet]]

BUF_FIT(b, n) == IF n <= BUF_CAP(b) THEN b ELSE buf__grow(b, n)

\* the array after an operation; an operation whose growth got no memory
\* leaves the array as it is, an index outside 0..len-1 is outside the
\* contract ("ub")
BUF_PUSH(b, val) ==
    LET f == BUF_FIT(b, BUF_LEN(b) + 1) IN
    IF BUF_LEN(f) >= BUF_CAP(f) THEN [b |-> f, st |-> "ok"]
    ELSE [b |-> [f EXCEPT !.elems[f.len] = val, !.len = @ + 1], st |-> "ok"]

BUF_RESIZE(b, n) ==
    LET f == BUF_FIT(b, n) IN
    IF ~f.ptr \/ n > BUF_CAP(f) THEN [b |-> f, st |-> "ok"]
    ELSE [b |-> [f EXCEPT !.len = n], st |-> "ok"]

\* mutant: the elements after idx are moved one slot too few
BUF_REMOVE_short(b, idx) ==
    IF ~b.ptr \/ idx < 0 \/ idx >= b.len THEN [b |-> b, st |-> "ub"]
    ELSE [b |-> [b EXCEPT !.len = @ - 1,
                          !.elems = [j \in DOMAIN b.elems |->
                                        IF idx <= j /\ j < b.len - 2
                                        THEN b.elems[j + 1] ELSE b.elems[j]]],
          st |-> "ok"]

BUF_REMOVE(b, idx) ==
    IF ~b.ptr \/ idx < 0 \/ idx >= b.len THEN [b |-> b, st |-> "ub"]
    ELSE [b |-> [b EXCEPT !.len = @ - 1,
                          !.elems = [j \in DOMAIN b.elems |->
                                        IF idx <= j /\ j < b.len - 1
                                        THEN b.elems[j + 1] ELSE b.elems[j]]],
          st |-> "ok"]

\* mutant: the element copied into idx is the one after the last
BUF_SWAPREMOVE_past(b, idx) ==
    IF ~b.ptr \/ idx < 0 \/ idx >= b.len \/ b.len \notin DOMAIN b.elems
    THEN [b |-> b, st |-> "ub"]
    ELSE [b |-> [b EXCEPT !.len = @ - 1, !.elems[idx] = b.elems[b.len]], st |-> "ok"]

BUF_SWAPREMOVE(b, idx) ==
    IF ~b.ptr \/ idx < 0 \/ idx >= b.len THEN [b |-> b, st |-> "ub"]
    ELSE [b |-> [b EXCEPT !.len = @ - 1, !.elems[idx] = b.elems[b.len - 1]], st |-> "ok"]

\* mutant: the elements from idx on stay where they are
BUF_MAKEGAP_noshift(b, idx, n) ==
    LET f == BUF_FIT(b, BUF_LEN(b) + n) IN
    IF idx < 0 \/ idx > BUF_LEN(b) \/ n < 0 THEN [b |-> b, st |-> "ub", ret |-> idx]
    ELSE IF BUF_LEN(f) + n > BUF_CAP(f) THEN [b |-> f, st |-> "ok", ret |-> idx]
    ELSE IF ~f.ptr THEN [b |-> f, st |-> "ok", ret |-> idx]
    ELSE [b |-> [f EXCEPT !.len = @ + n], st |-> "ok", ret |-> idx]

\* the elements from idx on move n slots up, the n slots from idx on hold
\* nothing yet, and the value is the position of the first of them
BUF_MAKEGAP(b, idx, n) ==
    LET f == BUF_FIT(b, BUF_LEN(b) + n) IN
    IF idx < 0 \/ idx > BUF_LEN(b) \/ n < 0 THEN [b |-> b, st |-> "ub", ret |-> idx]
    ELSE IF BUF_LEN(f) + n > BUF_CAP(f) THEN [b |-> f, st |-> "ok", ret |-> idx]
    ELSE IF ~f.ptr THEN [b |-> f, st |-> "ok", ret |-> idx]
    ELSE [b |-> [f EXCEPT !.len = @ + n,
                          !.elems = [j \in DOMAIN f.elems |->
                                        IF idx + n <= j /\ j < f.len + n
                                        THEN f.elems[j - n]
                                        ELSE IF idx <= j /\ j < idx + n THEN Indet
                                        ELSE f.elems[j]]],
          st |-> "ok", ret |-> idx]

\* mutant: the new element is written one slot after idx
BUF_INSERT_after(b, idx, val) ==
    LET f == BUF_FIT(b, BUF_LEN(b) + 1) IN
    IF idx < 0 \/ idx > BUF_LEN(b) THEN [b |-> b, st |-> "ub"]
    ELSE IF BUF_LEN(f) >= BUF_CAP(f) THEN [b |-> f, st |-> "ok"]
    ELSE [b |-> [f EXCEPT !.len = @ + 1,
                          !.elems = [j \in DOMAIN f.elems |->
                                        IF j = idx + 1 THEN val
                                        ELSE IF idx < j /\ j <= f.len
                                        THEN f.elems[j - 1] ELSE f.elems[j]]],
          st |-> "ok"]

\* the elements from idx on move one slot up and val is written at idx
BUF_INSERT(b, idx, val) ==
    LET f == BUF_FIT(b, BUF_LEN(b) + 1) IN
    IF idx < 0 \/ idx > BUF_LEN(b) THEN [b |-> b, st |-> "ub"]
    ELSE IF BUF_LEN(f) >= BUF_CAP(f) THEN [b |-> f, st |-> "ok"]
    ELSE [b |-> [f EXCEPT !.len = @ + 1,
                          !.elems = [j \in DOMAIN f.elems |->
                                        IF j = idx THEN val
                                        ELSE IF idx < j /\ j <= f.len
                                        THEN f.elems[j - 1] ELSE f.elems[j]]],
          st |-> "ok"]

----------------------------------------------------------------------------
(* The calling program: one call per step on the map of its library.  The  *)
(* ghost variable shadow records what the calls stored.                    *)

NoShadow == [kv |-> [k \in AllKeys |-> Absent], null |-> Zeroed]

Start(programs) ==
    /\ prog \in programs
    /\ map = NULL
    /\ map64 = NULL64
    /\ buf = NULLBUF
    /\ shadow = NoShadow
    /\ fault = "none"

Args == Program[prog]
Running32 == Args.lib = "tinyhashmap" /\ fault = "none"
Running64 == Args.lib = "tinyhashmap64" /\ fault = "none"

\* the handle after a call, or the fault the call ran into
Outcome(r) ==
    /\ map' = IF r.st = "ok" THEN r.b ELSE map
    /\ fault' = IF r.st = "ok" THEN "none" ELSE r.st
    /\ UNCHANGED <<prog, map64, buf>>

Outcome64(r) ==
    /\ map64' = IF r.st = "ok" THEN r.b ELSE map64
    /\ fault' = IF r.st = "ok" THEN "none" ELSE r.st
    /\ UNCHANGED <<prog, map, buf>>

ShadowSet(key, val) == IF key = 0 THEN shadow ELSE [shadow EXCEPT !.kv[key] = val]
ShadowPtr(key) ==
    IF key # 0 /\ shadow.kv[key] = Absent THEN [shadow EXCEPT !.kv[key] = Indet] ELSE shadow
ShadowDel(key) == IF key = 0 THEN shadow ELSE [shadow EXCEPT !.kv[key] = Absent]
ShadowClear == [shadow EXCEPT !.kv = NoShadow.kv]

Set(key, val, heap) ==
    /\ Running32
    /\ Outcome(HMAP_SET(map, key, val, heap))
    /\ shadow' = ShadowSet(key, val)

Ptr(key, heap) ==
    /\ Running32
    /\ Outcome(HMAP_PTR(map, key, heap))
    /\ shadow' = ShadowPtr(key)

Get(key, heap) ==
    /\ Running32
    /\ Outcome(HMAP_GET(map, key, heap))
    /\ UNCHANGED shadow

Has(key) ==
    /\ Running32
    /\ Outcome([b |-> map, st |-> HMAP_HAS(map, key).st])
    /\ UNCHANGED shadow

Idx(key) ==
    /\ Running32
    /\ Outcome([b |-> map, st |-> HMAP_IDX(map, key).st])
    /\ UNCHANGED shadow

Del(key) ==
    /\ Running32
    /\ Outcome(HMAP_DEL(map, key))
    /\ shadow' = ShadowDel(key)

Clear ==
    /\ Running32
    /\ Outcome([b |-> HMAP_CLEAR(map), st |-> "ok"])
    /\ shadow' = ShadowClear

Fit(n, heap) ==
    /\ Running32
    /\ Outcome(HMAP_FIT(map, n, heap))
    /\ UNCHANGED shadow

TryFit(n, heap) ==
    /\ Running32
    /\ Outcome(HMAP_TRYFIT(map, n, heap))
    /\ UNCHANGED shadow

SetNullVal(val, heap) ==
    /\ Running32
    /\ Outcome(HMAP_SETNULLVAL(map, val, heap))
    /\ shadow' = [shadow EXCEPT !.null = val]

Set64(key, val, heap) ==
    /\ Running64
    /\ HMAP64_LEN(map64) < Args.maxlen
    /\ Outcome64(HMAP64_SET(map64, key, val, heap))
    /\ shadow' = ShadowSet(key, val)

Ptr64(key, heap) ==
    /\ Running64
    /\ HMAP64_LEN(map64) < Args.maxlen
    /\ Outcome64(HMAP64_PTR(map64, key, heap))
    /\ shadow' = ShadowPtr(key)

Get64(key, heap) ==
    /\ Running64
    /\ Outcome64(HMAP64_GET(map64, key, heap))
    /\ UNCHANGED shadow

Has64(key) ==
    /\ Running64
    /\ Outcome64([b |-> map64, st |-> HMAP64_HAS(map64, key).st])
    /\ UNCHANGED shadow

Idx64(key) ==
    /\ Running64
    /\ Outcome64([b |-> map64, st |-> HMAP64_IDX(map64, key).st])
    /\ UNCHANGED shadow

Del64(key) ==
    /\ Running64
    /\ Outcome64(HMAP64_DEL(map64, key))
    /\ shadow' = ShadowDel(key)

Clear64 ==
    /\ Running64
    /\ Outcome64([b |-> HMAP64_CLEAR(map64), st |-> "ok"])
    /\ shadow' = ShadowClear

Fit64(n, heap) ==
    /\ Running64
    /\ Outcome64(HMAP64_FIT(map64, n, heap))
    /\ UNCHANGED shadow

TryFit64(n, heap) ==
    /\ Running64
    /\ Outcome64(HMAP64_TRYFIT(map64, n, heap))
    /\ UNCHANGED shadow

SetNullVal64(val, heap) ==
    /\ Running64
    /\ Outcome64(HMAP64_SETNULLVAL(map64, val, heap))
    /\ shadow' = [shadow EXCEPT !.null = val]

\* One call of the running program.  calloc(0, n) is requested only for a
\* reserve that wraps the slot count, so its two answers are told apart in the
\* fit calls alone.
Calls(H) ==
    \/ \E a \in Args.set, h \in H \ {"zero_null"} : Set(a[1], a[2], h)
    \/ \E k \in Args.ptr, h \in H \ {"zero_null"} : Ptr(k, h)
    \/ \E k \in Args.get, h \in H \ {"zero_null"} : Get(k, h)
    \/ \E k \in Args.get : Has(k)
    \/ \E k \in Args.get : Idx(k)
    \/ \E k \in Args.del : Del(k)
    \/ Clear
    \/ \E n \in Args.fit, h \in H : Fit(n, h)
    \/ \E n \in Args.fit, h \in H : TryFit(n, h)
    \/ \E v \in Args.nullv, h \in H \ {"zero_null"} : SetNullVal(v, h)
    \/ \E a \in Args.set, h \in H \ {"zero_null"} : Set64(a[1], a[2], h)
    \/ \E k \in Args.ptr, h \in H \ {"zero_null"} : Ptr64(k, h)
    \/ \E k \in Args.get, h \in H \ {"zero_null"} : Get64(k, h)
    \/ \E k \in Args.get : Has64(k)
    \/ \E k \in Args.get : Idx64(k)
    \/ \E k \in Args.del : Del64(k)
    \/ Clear64
    \/ \E n \in Args.fit, h \in H : Fit64(n, h)
    \/ \E n \in Args.fit, h \in H : TryFit64(n, h)
    \/ \E v \in Args.nullv, h \in H \ {"zero_null"} : SetNullVal64(v, h)

\* ordinary use: every request that fits the heap is granted
Init == Start({"collide", "load", "collide64", "load64"})
Next == Calls(HeapsOK)
Spec == Init /\ [][Next]_vars

\* the allocator may refuse any request
NextOOM == Calls(Heaps)
SpecOOM == Init /\ [][NextOOM]_vars

\* reserve requests near the largest size_t
InitWide == Start({"wide", "wide64"})
NextWide == Calls(HeapsOK)
SpecWide == InitWide /\ [][NextWide]_vars

\* the array program
RunningBuf == prog = "array" /\ fault = "none"

OutcomeBuf(r) ==
    /\ buf' = IF r.st = "ok" THEN r.b ELSE buf
    /\ fault' = IF r.st = "ok" THEN "none" ELSE r.st
    /\ UNCHANGED <<prog, map, map64, shadow>>

Push(val) ==
    /\ RunningBuf
    /\ BUF_LEN(buf) < MaxBufLen
    /\ OutcomeBuf(BUF_PUSH(buf, val))

Resize(n) ==
    /\ RunningBuf
    /\ OutcomeBuf(BUF_RESIZE(buf, n))

Remove(idx) ==
    /\ RunningBuf
    /\ OutcomeBuf(BUF_REMOVE(buf, idx))

SwapRemove(idx) ==
    /\ RunningBuf
    /\ OutcomeBuf(BUF_SWAPREMOVE(buf, idx))

Insert(idx, val) ==
    /\ RunningBuf
    /\ BUF_LEN(buf) < MaxBufLen
    /\ OutcomeBuf(BUF_INSERT(buf, idx, val))

MakeGap(idx, n) ==
    /\ RunningBuf
    /\ BUF_LEN(buf) + n <= MaxBufLen
    /\ OutcomeBuf(BUF_MAKEGAP(buf, idx, n))

FitBuf(n) ==
    /\ RunningBuf
    /\ OutcomeBuf([b |-> BUF_FIT(buf, n), st |-> "ok"])

\* the sizes the program reserves and the sizes of the gaps it makes
BufFits == {8, MaxFit, 100}
BufGaps == {1, 2}

InitBuf == Start({"array"})
NextBuf ==
    \/ \E v \in BufVals : Push(v)
    \/ \E n \in {1, MaxBufLen, 16} : Resize(n)
    \/ \E i \in 0 .. BUF_LEN(buf) - 1 : Remove(i)
    \/ \E i \in 0 .. BUF_LEN(buf) - 1 : SwapRemove(i)
    \/ \E i \in 0 .. BUF_LEN(buf), v \in BufVals : Insert(i, v)
    \/ \E i \in 0 .. BUF_LEN(buf), n \in BufGaps : MakeGap(i, n)
    \/ \E n \in BufFits : FitBuf(n)
SpecBuf == InitBuf /\ [][NextBuf]_vars

----------------------------------------------------------------------------
(* Claims *)

\* slot i of table b is empty now and was occupied since b was allocated
Vacated(b, i) == b.keys[i] = 0 /\ b.vals[i] # Indet

(* C1: 32-bit map: after any sequence of set, del, clear and fit calls with *)
(* non-zero keys, has(k) is true exactly for the keys that were set and not *)
(* deleted or cleared since, and get(k) returns the value of the most       *)
(* recent set(k, v).                                                        *)
C1_Contract ==
    Running32 =>
        \A k \in AllKeys :
            /\ HMAP_HAS(map, k).ret <=> (shadow.kv[k] # Absent)
            /\ shadow.kv[k] \in Vals => HMAP_GET(map, k, "ok").ret = shadow.kv[k]

\* a grown table where 33 sits behind 1, 1 was overwritten, a key was removed
C1_Witness ==
    /\ Running32 /\ map.ptr /\ map.maxlen = 31
    /\ shadow.kv[1] = "b" /\ shadow.kv[33] = "a"
    /\ HMAP_IDX(map, 33).ret = 2
    /\ \E i \in DOMAIN map.keys : Vacated(map, i)

(* C2: 64-bit map: after any sequence of set and del calls with non-zero    *)
(* keys, has(k) is true for every key that was set and not deleted since,   *)
(* and get(k) returns its most recently set value.                          *)
C2_Contract64 ==
    Running64 =>
        \A k \in AllKeys :
            shadow.kv[k] \in Vals =>
                /\ HMAP64_HAS(map64, k).ret
                /\ HMAP64_GET(map64, k, "ok").ret = shadow.kv[k]

ProgKeys == {a[1] : a \in Args.set} \cup Args.ptr \cup Args.del

(* C4: 32-bit map del(k) returns true if and only if k is present; when it  *)
(* returns true the length decreases by exactly one, k becomes absent and   *)
(* every other present key stays present with its value; when it returns    *)
(* false nothing changes; a second del(k) returns false.                    *)
C4_Del ==
    Running32 =>
        \A k \in ProgKeys \cup {0} :
            LET r == HMAP_DEL(map, k) IN
            /\ r.st = "ok"
            /\ r.ret <=> HMAP_HAS(map, k).ret
            /\ r.ret =>
                /\ HMAP_LEN(r.b) = HMAP_LEN(map) - 1
                /\ ~HMAP_HAS(r.b, k).ret
                /\ ~HMAP_DEL(r.b, k).ret
                /\ \A j \in ProgKeys \ {k} :
                      HMAP_HAS(map, j).ret =>
                          /\ HMAP_HAS(r.b, j).ret
                          /\ HMAP_GET(r.b, j, "ok").ret = HMAP_GET(map, j, "ok").ret
            /\ ~r.ret => r.b = map

\* a key was removed before, and removing k now moves another key j
C4_Witness ==
    /\ Running32 /\ map.ptr
    /\ \E i \in DOMAIN map.keys : Vacated(map, i)
    /\ \E k, j \in ProgKeys :
          /\ k # j /\ HMAP_DEL(map, k).ret /\ HMAP_HAS(map, j).ret
          /\ HMAP_IDX(HMAP_DEL(map, k).b, j).ret # HMAP_IDX(map, j).ret

\* what get returns for an absent key
NullVal(b) == IF b.ptr THEN b.vals[-1] ELSE Zeroed

(* C5: zero-key rejection: in every reachable state of either map has(0) is *)
(* false, idx(0) is -1, del(0) is false, get(0) returns the current null    *)
(* value, and has, idx and del with key 0 leave the length and every key    *)
(* slot as they are.                                                        *)
C5_ZeroKey ==
    /\ Running32 =>
          /\ HMAP_HAS(map, 0) = [st |-> "ok", ret |-> FALSE]
          /\ HMAP_IDX(map, 0) = [st |-> "ok", ret |-> -1]
          /\ HMAP_DEL(map, 0) = [b |-> map, st |-> "ok", ret |-> FALSE]
          /\ map.ptr => hmap__idx(map, 0, FALSE, FALSE).hdr = map
          /\ HMAP_GET(map, 0, "ok").ret = NullVal(map)
    /\ Running64 =>
          /\ HMAP64_HAS(map64, 0) = [st |-> "ok", ret |-> FALSE]
          /\ HMAP64_IDX(map64, 0) = [st |-> "ok", ret |-> -1]
          /\ HMAP64_DEL(map64, 0) = [b |-> map64, st |-> "ok", ret |-> FALSE]
          /\ map64.ptr => hmap64__idx(map64, 0, FALSE, FALSE).hdr = map64
          /\ HMAP64_GET(map64, 0, "ok").ret = NullVal(map64)

\* a table with keys in it, free slots, and a null value of its own
C5_Witness ==
    /\ Running32 /\ map.ptr /\ map.len >= 2 /\ map.keys[0] = 0
    /\ map.vals[-1] = "b" /\ shadow.null = "b"

\* HMAP__FIT1 and HMAP_FIT call hmap__grow
NeedsGrow(b) == ~(b.ptr /\ (HMAP_LEN(b) * 2) % SizeMod <= HMAP_MAX(b))
GrowCalled(b, n) == ~(n = 0 \/ (b.ptr /\ (n * 2) % SizeMod <= HMAP_MAX(b)))
GrowCalled64(b, n) == ~(n = 0 \/ (b.ptr /\ (n * 2) % SizeMod < HMAP64_CAP(b)))

(* C6: set with key 0 is a no-op: after set(0, v) on an allocated map whose *)
(* load needs no growth, the length, the live keys, the value of every live *)
(* key and the null value returned for absent keys are as before.           *)
C6_SetZeroNoop ==
    Running32 /\ ~NeedsGrow(map) =>
        \A v \in Vals :
            LET r == HMAP_SET(map, 0, v, "ok") IN
            /\ r.st = "ok"
            /\ r.b.len = map.len
            /\ r.b.keys = map.keys
            /\ \A k \in ProgKeys :
                  HMAP_GET(r.b, k, "ok").ret = HMAP_GET(map, k, "ok").ret
            /\ NullVal(r.b) = NullVal(map)

(* C7: when a set or ptr call needs to grow the map and the allocation      *)
(* fails, the call is a no-op: length, capacity, every key slot and every   *)
(* stored value are exactly as before the call.                             *)
C7_FailedGrowNoop ==
    Running32 /\ NeedsGrow(map) =>
        \A h \in {"no_malloc", "no_calloc"} :
            /\ \A a \in Args.set : HMAP_SET(map, a[1], a[2], h) = [b |-> map, st |-> "ok"]
            /\ \A k \in Args.ptr :
                  LET r == HMAP_PTR(map, k, h) IN r.b = map /\ r.st = "ok"

\* the maxlen the capacity loop of hmap__grow aims at, in unbounded integers
RECURSIVE IdealMax(_, _)
IdealMax(m, reserve) == IF m \div 2 <= reserve THEN IdealMax(m * 2 + 1, reserve) ELSE m

\* try_fit(n) on b calls hmap__grow and gets no memory: the allocator refuses a
\* request, or the capacity to allocate does not fit a size_t
NoMemory(b, n, heap) ==
    /\ GrowCalled(b, n)
    /\ \/ heap \in {"no_malloc", "no_calloc"}
       \/ IdealMax(IF b.ptr THEN b.maxlen * 2 + 1 ELSE 15, n) + 1 >= SizeMod

(* C8: try_fit failure leaves the map untouched: when try_fit(n) cannot     *)
(* obtain memory (an allocator call fails, or the capacity computation      *)
(* overflows) it returns false, and length, capacity, keys, values and the  *)
(* null value are as before the call.                                       *)
C8_TryFitFailure ==
    Running32 =>
        \A n \in Args.fit, h \in Heaps :
            NoMemory(map, n, h) =>
                HMAP_TRYFIT(map, n, h) = [b |-> map, st |-> "ok", ret |-> FALSE]

(* C9: 64-bit map try_fit reports success whenever memory was obtained: if  *)
(* no allocation fails and no overflow occurs, try_fit(n) returns true from *)
(* every reachable state, and a fit(n) right after it leaves the capacity   *)
(* unchanged.                                                               *)
C9_TryFit64 ==
    Running64 =>
        \A n \in Args.fit :
            LET r == HMAP64_TRYFIT(map64, n, "ok") IN
            r.st = "ok" /\ (~GrowCalled64(map64, n) \/ r.b # map64) =>
                /\ r.ret
                /\ HMAP64_CAP(HMAP64_FIT(r.b, n, "ok").b) = HMAP64_CAP(r.b)

\* the first value above x of the sequence m, 2m+1, 2(2m+1)+1, ...
RECURSIVE FirstAbove(_, _)
FirstAbove(m, x) == IF m > x THEN m ELSE FirstAbove(m * 2 + 1, x)

\* the first value of that sequence whose half is above x
RECURSIVE FirstHalfAbove(_, _)
FirstHalfAbove(m, x) == IF m \div 2 > x THEN m ELSE FirstHalfAbove(m * 2 + 1, x)

\* the reserves the growth target is examined for: around each value where
\* the target changes
Reserves == {0, 1, 6, 7, 8, 14, 15, 16, MaxFit, MaxFit + 1}

\* the call that returned f allocated a new table for b
Grew(b, f) == f.st = "ok" /\ f.b # b

(* C10: 32-bit map growth target: a successful growth with reserve r sets   *)
(* max to the first value of the sequence m0, 2*m0+1, ... that exceeds 2*r, *)
(* where m0 is 15 for a null handle and old_max*2+1 otherwise.              *)
C10_GrowTarget ==
    Running32 =>
        /\ \A n \in Reserves :
              LET f == HMAP_FIT(map, n, "ok") IN
              Grew(map, f) =>
                  f.b.maxlen = FirstAbove(IF map.ptr THEN map.maxlen * 2 + 1 ELSE 15, 2 * n)
        /\ NeedsGrow(map) =>
              HMAP__FIT1(map, "ok").b.maxlen
                  = FirstAbove(IF map.ptr THEN map.maxlen * 2 + 1 ELSE 15, 0)

(* C10 as amended: a successful growth with reserve r sets max to the first *)
(* value m of the sequence m0, 2*m0+1, ... with m div 2 > r, that is with   *)
(* m >= 2*r + 3.                                                            *)
C10_GrowTargetAmended ==
    Running32 =>
        /\ \A n \in Reserves :
              LET f == HMAP_FIT(map, n, "ok") IN
              Grew(map, f) =>
                  f.b.maxlen = FirstHalfAbove(IF map.ptr THEN map.maxlen * 2 + 1 ELSE 15, n)
        /\ NeedsGrow(map) =>
              HMAP__FIT1(map, "ok").b.maxlen
                  = FirstHalfAbove(IF map.ptr THEN map.maxlen * 2 + 1 ELSE 15, 0)

\* a 64 slot table, grown for a reserve of 30, with keys carried over
C10_Witness ==
    /\ Running32 /\ map.ptr /\ map.maxlen = 63 /\ map.len >= 2
    /\ HMAP_TRYFIT(map, MaxFit, "ok").ret

\* the non-zero keys in the key array of b
LiveKeys(b) == {b.keys[i] : i \in DOMAIN b.keys} \ {0}

(* C11: after clear on an allocated map (either library) the length is 0,   *)
(* the capacity is as before, every key that was present reports absent     *)
(* (has false, idx -1, get returns the null value), the null value is       *)
(* unchanged, and a key set afterwards is found with its value.             *)
C11_Clear ==
    /\ Running32 /\ map.ptr =>
          LET c == HMAP_CLEAR(map) IN
          /\ HMAP_LEN(c) = 0
          /\ HMAP_CAP(c) = HMAP_CAP(map)
          /\ NullVal(c) = NullVal(map)
          /\ \A k \in LiveKeys(map) \cup ProgKeys :
                /\ HMAP_HAS(c, k) = [st |-> "ok", ret |-> FALSE]
                /\ HMAP_IDX(c, k) = [st |-> "ok", ret |-> -1]
                /\ HMAP_GET(c, k, "ok") = [b |-> c, st |-> "ok", ret |-> NullVal(map)]
          /\ \A a \in Args.set :
                a[1] # 0 =>
                    LET r == HMAP_SET(c, a[1], a[2], "ok") IN
                    /\ r.st = "ok" /\ HMAP_LEN(r.b) = 1 /\ HMAP_HAS(r.b, a[1]).ret
                    /\ HMAP_GET(r.b, a[1], "ok").ret = a[2]
    /\ Running64 /\ map64.ptr =>
          LET c == HMAP64_CLEAR(map64) IN
          /\ HMAP64_LEN(c) = 0
          /\ HMAP64_CAP(c) = HMAP64_CAP(map64)
          /\ NullVal(c) = NullVal(map64)
          /\ \A k \in LiveKeys(map64) \cup ProgKeys :
                /\ HMAP64_HAS(c, k) = [st |-> "ok", ret |-> FALSE]
                /\ HMAP64_IDX(c, k) = [st |-> "ok", ret |-> -1]
                /\ HMAP64_GET(c, k, "ok") = [b |-> c, st |-> "ok", ret |-> NullVal(map64)]
          /\ \A a \in Args.set :
                a[1] # 0 =>
                    LET r == HMAP64_SET(c, a[1], a[2], "ok") IN
                    /\ r.st = "ok" /\ HMAP64_LEN(r.b) = 1 /\ HMAP64_HAS(r.b, a[1]).ret
                    /\ HMAP64_GET(r.b, a[1], "ok").ret = a[2]

\* a grown table with a null value of its own and a key in its last slot but
\* one, about to be cleared
C11_Witness ==
    /\ Running32 /\ map.ptr /\ map.maxlen = 31 /\ map.len >= 3
    /\ map.vals[-1] = "b" /\ map.keys[31] # 0
    /\ HMAP_CLEAR(map).len = 0

\* every live slot of table old has a slot of table new with its key and value
Carried(old, new) ==
    \A i \in DOMAIN old.keys :
        old.keys[i] # 0 =>
            \E j \in DOMAIN new.keys : new.keys[j] = old.keys[i] /\ new.vals[j] = old.vals[i]

\* table f.b is table b after a growth that kept the contents of the 32-bit map
Preserved(b, f) ==
    /\ HMAP_LEN(f.b) = HMAP_LEN(b)
    /\ LiveKeys(f.b) = LiveKeys(b)
    /\ Cardinality({i \in DOMAIN f.b.keys : f.b.keys[i] # 0})
          = Cardinality({i \in DOMAIN b.keys : b.keys[i] # 0})
    /\ Carried(b, f.b)
    /\ NullVal(f.b) = NullVal(b)
    /\ \A k \in LiveKeys(b) :
          /\ HMAP_HAS(f.b, k) = [st |-> "ok", ret |-> TRUE]
          /\ HMAP_HAS(b, k).ret => HMAP_GET(f.b, k, "ok").ret = HMAP_GET(b, k, "ok").ret

\* the same for the 64-bit map
Preserved64(b, f) ==
    /\ HMAP64_LEN(f.b) = HMAP64_LEN(b)
    /\ LiveKeys(f.b) = LiveKeys(b)
    /\ Cardinality({i \in DOMAIN f.b.keys : f.b.keys[i] # 0})
          = Cardinality({i \in DOMAIN b.keys : b.keys[i] # 0})
    /\ Carried(b, f.b)
    /\ NullVal(f.b) = NullVal(b)
    /\ \A k \in LiveKeys(b) :
          /\ HMAP64_HAS(f.b, k) = [st |-> "ok", ret |-> TRUE]
          /\ HMAP64_HAS(b, k).ret => HMAP64_GET(f.b, k, "ok").ret = HMAP64_GET(b, k, "ok").ret

C13_ReadOnly ==
    /\ Running32 =>
          \A k \in ProgKeys \cup {0} :
              LET r == HMAP_GET(map, k, "ok") IN r.st = "ok" /\ r.b = map
    /\ Running64 =>
          \A k \in ProgKeys \cup {0} :
              LET r == HMAP64_GET(map64, k, "ok") IN r.st = "ok" /\ r.b = map64

(* C14: get of an absent key returns the map's null value: it is all zero   *)
(* on a freshly allocated map, equals the argument of the most recent       *)
(* set_null_value afterwards, and is not changed by set or del with         *)
(* non-zero keys, by clear, or by growth.                                   *)
C14_NullValue ==
    /\ Running32 =>
          /\ \A k \in ProgKeys \ {0} :
                ~HMAP_HAS(map, k).ret =>
                    LET g == HMAP_GET(map, k, "ok") IN g.st = "ok" /\ g.ret = NullVal(g.b)
          /\ ~map.ptr => NullVal(HMAP__FIT1(map, "ok").b) = Zeroed
          /\ \A v \in Vals :
                LET r == HMAP_SETNULLVAL(map, v, "ok") IN
                /\ r.st = "ok" /\ NullVal(r.b) = v
                /\ \A k \in ProgKeys \ {0} :
                      ~HMAP_HAS(r.b, k).ret => HMAP_GET(r.b, k, "ok").ret = v
          /\ \A a \in Args.set :
                a[1] # 0 => NullVal(HMAP_SET(map, a[1], a[2], "ok").b) = NullVal(map)
          /\ \A k \in Args.del : k # 0 => NullVal(HMAP_DEL(map, k).b) = NullVal(map)
          /\ NullVal(HMAP_CLEAR(map)) = NullVal(map)
          /\ \A n \in Args.fit : NullVal(HMAP_FIT(map, n, "ok").b) = NullVal(map)
          /\ NullVal(HMAP__FIT1(map, "ok").b) = NullVal(map)
    /\ Running64 =>
          /\ \A k \in ProgKeys \ {0} :
                ~HMAP64_HAS(map64, k).ret =>
                    LET g == HMAP64_GET(map64, k, "ok") IN g.st = "ok" /\ g.ret = NullVal(g.b)
          /\ \A v \in Vals : NullVal(HMAP64_SETNULLVAL(map64, v, "ok").b) = v
          /\ \A a \in Args.set :
                a[1] # 0 => NullVal(HMAP64_SET(map64, a[1], a[2], "ok").b) = NullVal(map64)
          /\ \A k \in Args.del : k # 0 => NullVal(HMAP64_DEL(map64, k).b) = NullVal(map64)
          /\ NullVal(HMAP64_CLEAR(map64)) = NullVal(map64)
          /\ \A n \in Args.fit : NullVal(HMAP64_FIT(map64, n, "ok").b) = NullVal(map64)
          /\ NullVal(HMAP64__FIT1(map64, "ok").b) = NullVal(map64)

\* a 16 slot table whose null value the caller set, with keys, that grows
\* when MaxFit keys are to fit
C14_Witness ==
    /\ Running32 /\ map.ptr /\ map.maxlen = 15 /\ map.len >= 2
    /\ map.vals[-1] = "b" /\ shadow.null = "b"
    /\ Grew(map, HMAP_FIT(map, MaxFit, "ok"))

\* the slot indices an iteration over table b visits that hold a key
LiveSlots(b) == {i \in 0 .. HMAP_CAP(b) - 1 : b.keys[i] # 0}

(* C15: 32-bit map iteration: in every reachable state, scanning the slot   *)
(* indices 0..capacity-1 finds exactly len slots with a non-zero key, no    *)
(* key occupies two slots, the keys found are the keys set and not deleted  *)
(* or cleared since, and the value at a live slot is the value last set for *)
(* that slot's key.                                                         *)
C15_Iteration ==
    Running32 /\ map.ptr =>
        /\ Cardinality(LiveSlots(map)) = HMAP_LEN(map)
        /\ \A i, j \in LiveSlots(map) : map.keys[i] = map.keys[j] => i = j
        /\ \A i \in LiveSlots(map) :
              /\ shadow.kv[map.keys[i]] # Absent
              /\ shadow.kv[map.keys[i]] \in Vals => map.vals[i] = shadow.kv[map.keys[i]]
        /\ \A k \in AllKeys : shadow.kv[k] # Absent => k \in LiveKeys(map)

\* a table where a removal has moved a key and 33 sits behind 1
C15_Witness ==
    /\ Running32 /\ map.ptr /\ map.maxlen = 31 /\ map.len >= 3
    /\ map.keys[1] = 1 /\ map.keys[2] = 33 /\ map.vals[1] = "b"
    /\ \E i \in DOMAIN map.keys : Vacated(map, i)

(* C16: 64-bit map iteration: after any sequence of set and del calls no    *)
(* key is stored in more than one slot, and len equals the number of        *)
(* distinct keys that were set and not deleted since.                       *)
C16_Iteration64 ==
    Running64 /\ map64.ptr =>
        /\ \A i, j \in DOMAIN map64.keys :
              map64.keys[i] # 0 /\ map64.keys[i] = map64.keys[j] => i = j
        /\ HMAP64_LEN(map64) = Cardinality({k \in AllKeys : shadow.kv[k] # Absent})

(* C17: set(k, v) on a present key overwrites: the length is unchanged,     *)
(* get(k) returns v and no other key or value changes (with no growth due,  *)
(* the key array is the same and the value array differs in the slot of k   *)
(* only); a second set(k, v) changes nothing; ptr(k) on a present key       *)
(* refers to the slot holding its stored value.                             *)
C17_Overwrite ==
    Running32 /\ map.ptr =>
        \A a \in Args.set :
            LET k == a[1]
                v == a[2]
                r == HMAP_SET(map, k, v, "ok")
                p == HMAP_PTR(map, k, "ok")
            IN
            k # 0 /\ HMAP_HAS(map, k).ret =>
                /\ r.st = "ok"
                /\ HMAP_LEN(r.b) = HMAP_LEN(map)
                /\ HMAP_GET(r.b, k, "ok").ret = v
                /\ LiveKeys(r.b) = LiveKeys(map)
                /\ \A j \in LiveKeys(map) \ {k} :
                      HMAP_GET(r.b, j, "ok").ret = HMAP_GET(map, j, "ok").ret
                /\ NullVal(r.b) = NullVal(map)
                /\ ~NeedsGrow(map) =>
                      /\ r.b.keys = map.keys
                      /\ r.b.vals = [map.vals EXCEPT ![HMAP_IDX(map, k).ret] = v]
                /\ HMAP_SET(r.b, k, v, "ok") = r
                /\ p.st = "ok" /\ HMAP_LEN(p.b) = HMAP_LEN(map)
                /\ p.ret = HMAP_IDX(p.b, k).ret
                /\ p.b.vals[p.ret] = HMAP_GET(map, k, "ok").ret

\* key 1 holds "a" behind a collision chain and is about to be set to "b"
C17_Witness ==
    /\ Running32 /\ map.ptr /\ map.len >= 3
    /\ HMAP_GET(map, 1, "ok").ret = "a" /\ HMAP_HAS(map, 17).ret /\ HMAP_HAS(map, 33).ret
    /\ HMAP_GET(HMAP_SET(map, 1, "b", "ok").b, 1, "ok").ret = "b"

\* the probe start indices i for which the mask is compared with the modulus
ProbeStarts(cap) == AllKeys \cup {cap - 1, cap, cap + 1, 2 * cap - 1, 2 * cap}

(* C18: for both maps the capacity of an allocated map is a power of two    *)
(* that is at least 16 (for the 32-bit map max = capacity-1), the key array *)
(* has capacity slots, and masking a probe index with capacity-1 is the     *)
(* index modulo the capacity.                                               *)
C18_PowerOfTwo ==
    /\ Running32 /\ map.ptr =>
          /\ \E e \in 4 .. SizeBits - 1 : HMAP_CAP(map) = 2 ^ e
          /\ HMAP_MAX(map) = HMAP_CAP(map) - 1
          /\ DOMAIN map.keys = 0 .. HMAP_CAP(map) - 1
          /\ \A i \in ProbeStarts(HMAP_CAP(map)) :
                BitAnd(i, HMAP_MAX(map)) = i % HMAP_CAP(map)
    /\ Running64 /\ map64.ptr =>
          /\ \E e \in 4 .. SizeBits - 1 : HMAP64_CAP(map64) = 2 ^ e
          /\ DOMAIN map64.keys = 0 .. HMAP64_CAP(map64) - 1
          /\ \A i \in ProbeStarts(HMAP64_CAP(map64)) :
                BitAnd(i, HMAP64_CAP(map64) - 1) = i % HMAP64_CAP(map64)

\* a 64-bit table that grew past its first allocation with keys in it
C18_Witness == Running64 /\ map64.ptr /\ HMAP64_CAP(map64) = 64 /\ HMAP64_LEN(map64) >= 2

(* C19: array remove(i) with 0 <= i < L keeps order: afterwards the length  *)
(* is L-1, the elements at indices below i are unchanged, and the element   *)
(* at each index j >= i is the element that was at j+1 before.              *)
C19_Remove ==
    RunningBuf =>
        \A i \in 0 .. BUF_LEN(buf) - 1 :
            LET r == BUF_REMOVE(buf, i) IN
            /\ r.st = "ok"
            /\ BUF_LEN(r.b) = BUF_LEN(buf) - 1
            /\ BUF_CAP(r.b) = BUF_CAP(buf)
            /\ \A j \in 0 .. i - 1 : r.b.elems[j] = buf.elems[j]
            /\ \A j \in i .. BUF_LEN(buf) - 2 : r.b.elems[j] = buf.elems[j + 1]

\* an array of MaxBufLen elements, three of them different, the first about
\* to be removed
C19_Witness ==
    /\ RunningBuf /\ BUF_LEN(buf) = MaxBufLen
    /\ buf.elems[0] = "a" /\ buf.elems[1] = "b" /\ buf.elems[2] = "c"
    /\ BUF_REMOVE(buf, 0).b.elems[1] = "c"

(* C20: array swap_remove(i) with 0 <= i < L: afterwards the length is L-1, *)
(* index i holds the element that was at index L-1, and every other index   *)
(* below L-1 holds the same element as before.                              *)
C20_SwapRemove ==
    RunningBuf =>
        \A i \in 0 .. BUF_LEN(buf) - 1 :
            LET r == BUF_SWAPREMOVE(buf, i) IN
            /\ r.st = "ok"
            /\ BUF_LEN(r.b) = BUF_LEN(buf) - 1
            /\ BUF_CAP(r.b) = BUF_CAP(buf)
            /\ \A j \in 0 .. BUF_LEN(buf) - 2 :
                  r.b.elems[j] = IF j = i THEN buf.elems[BUF_LEN(buf) - 1] ELSE buf.elems[j]

\* an array of three different elements whose first is about to be replaced
\* by its last
C20_Witness ==
    /\ RunningBuf /\ BUF_LEN(buf) = 3
    /\ buf.elems[0] = "a" /\ buf.elems[1] = "b" /\ buf.elems[2] = "c"
    /\ BUF_SWAPREMOVE(buf, 0).b.elems[0] = "c"

(* C21: array make_gap(i, n) with 0 <= i <= L: afterwards the length is     *)
(* L+n, the elements at indices below i are unchanged, the element that was *)
(* at each index j >= i is at j+n, and the value returned is the position i *)
(* of the array, which may have been reallocated; insert(i, v) gives what   *)
(* make_gap(i, 1) followed by a store of v at index i gives.                *)
C21_MakeGap ==
    RunningBuf =>
        \A i \in 0 .. BUF_LEN(buf) :
            /\ \A n \in BufGaps :
                  LET r == BUF_MAKEGAP(buf, i, n) IN
                  /\ r.st = "ok"
                  /\ r.ret = i
                  /\ BUF_LEN(r.b) = BUF_LEN(buf) + n
                  /\ BUF_CAP(r.b) >= BUF_LEN(r.b)
                  /\ \A j \in 0 .. i - 1 : r.b.elems[j] = buf.elems[j]
                  /\ \A j \in i .. BUF_LEN(buf) - 1 : r.b.elems[j + n] = buf.elems[j]
            /\ \A v \in BufVals :
                  LET g == BUF_MAKEGAP(buf, i, 1)
                      r == BUF_INSERT(buf, i, v)
                  IN
                  /\ r.st = "ok"
                  /\ r.b = [g.b EXCEPT !.elems[g.ret] = v]

\* a full array of the first capacity whose first elements differ: a gap in
\* the middle of them needs a larger allocation
C21_Witness ==
    /\ RunningBuf /\ BUF_LEN(buf) = BUF_CAP(buf) /\ BUF_LEN(buf) > 0
    /\ buf.elems[0] = "a" /\ buf.elems[1] = "b" /\ buf.elems[2] = "c"
    /\ BUF_CAP(BUF_MAKEGAP(buf, 1, 2).b) > BUF_CAP(buf)
    /\ BUF_MAKEGAP(buf, 1, 2).b.elems[3] = "b"
    /\ BUF_INSERT(buf, 1, "c").b.elems[2] = "b"

(* C22: array growth: fit(n) never decreases the capacity and never changes *)
(* the length, and fit(30) on a null array or on an array of the base       *)
(* capacity 16 results in capacity 64.                                      *)
C22_FitGrowth ==
    RunningBuf =>
        /\ \A n \in BufFits :
              /\ BUF_CAP(BUF_FIT(buf, n)) >= BUF_CAP(buf)
              /\ BUF_LEN(BUF_FIT(buf, n)) = BUF_LEN(buf)
        /\ BUF_CAP(buf) <= 16 => BUF_CAP(BUF_FIT(buf, 30)) = 64

(* C22 as amended: fit(n) never decreases the capacity and never changes    *)
(* the length or the elements; when memory is there the capacity afterwards *)
(* is n or more, and fit(30) results in capacity 30 on a null array and in  *)
(* capacity 32 on an array of the base capacity 16.                         *)
C22_FitGrowthAmended ==
    RunningBuf =>
        /\ \A n \in BufFits :
              LET f == BUF_FIT(buf, n) IN
              /\ BUF_CAP(f) >= BUF_CAP(buf)
              /\ BUF_LEN(f) = BUF_LEN(buf)
              /\ \A j \in 0 .. BUF_LEN(buf) - 1 : f.elems[j] = buf.elems[j]
              /\ 2 * (SizeBits \div 8) + n * ElemSize <= HeapMax => BUF_CAP(f) >= n
              /\ n <= BUF_CAP(buf) => f = buf
        /\ ~buf.ptr => BUF_CAP(BUF_FIT(buf, 30)) = 30
        /\ BUF_CAP(buf) = 16 => BUF_CAP(BUF_FIT(buf, 30)) = 32

\* an array of the base capacity that holds elements and is about to be
\* fitted to 30
C22_Witness ==
    /\ RunningBuf /\ BUF_CAP(buf) = 16 /\ BUF_LEN(buf) = MaxBufLen
    /\ buf.elems[0] = "a" /\ buf.elems[1] = "b"
    /\ BUF_CAP(BUF_FIT(buf, 30)) = 32
    /\ BUF_FIT(buf, 30).elems[1] = "b"

\* the slots from the start of the probe for key up to slot s, cyclically
ProbePath(b, key, s) ==
    LET home == BitAnd(key, b.maxlen)
        dist == (s - home) % (b.maxlen + 1)
    IN {BitAnd(home + d, b.maxlen) : d \in 0 .. dist}

(* C23: 32-bit map: in every state reached between public calls, for every  *)
(* occupied slot s holding key k, every slot on the cyclic probe path from  *)
(* k & max up to and including s is occupied, so a linear probe for k meets *)
(* no empty slot before s.                                                  *)
C23_ProbeChain ==
    Running32 /\ map.ptr =>
        \A s \in 0 .. map.maxlen :
            map.keys[s] # 0 =>
                /\ \A t \in ProbePath(map, map.keys[s], s) : map.keys[t] # 0
                /\ hmap__idx_probe(map, map.keys[s], map.keys[s], 0) =
                       [st |-> "match", i |-> s]

\* after a removal, 33 sits two slots behind the start of its probe, behind
\* another key that was moved up
C23_Witness ==
    /\ Running32 /\ map.ptr /\ map.maxlen = 15
    /\ map.keys[1] = 17 /\ map.keys[2] = 2 /\ map.keys[3] = 33
    /\ map.keys[4] = 0 /\ Vacated(map, 4)

\* the number of occupied slots that follow slot i without an empty slot
\* between them
RECURSIVE RunLength(_, _, _)
RunLength(hdr, i, n) ==
    LET j == BitAnd(i + 1, hdr.maxlen) IN
    IF hdr.keys[j] = 0 \/ n > hdr.maxlen THEN 0
    ELSE 1 + RunLength(hdr, j, n + 1)

\* table b with the slot that matched cleared, as the scan finds it
Cleared(b, i) == [b EXCEPT !.len = @ - 1, !.keys[i] = 0]

(* C24: 32-bit map deletion scan: after the matched slot is cleared, the    *)
(* scan over the following run of occupied slots stops at the first key     *)
(* whose re-insertion lands back in its own slot; keys further along the    *)
(* run are not examined or moved.                                           *)
C24_ScanStops ==
    Running32 /\ map.ptr =>
        \A k \in ProgKeys \ {0} :
            LET p == hmap__idx_probe(map, k, k, 0) IN
            p.st = "match" =>
                hmap__idx_del(Cleared(map, p.i), p.i, 0).hdr =
                    hmap__idx_del_stop(Cleared(map, p.i), p.i, 0).hdr

(* C24 as amended: after the matched slot is cleared, the scan goes over    *)
(* the whole run of occupied slots that follows it, up to the first empty   *)
(* slot: a key whose re-insertion lands back in its own slot stays and the  *)
(* scan goes on with the next slot, a key that lands elsewhere is moved to  *)
(* an earlier slot of the run; afterwards every key of the run is found by  *)
(* its probe, and the slots outside the run are as before.                  *)
C24_ScanContinues ==
    Running32 /\ map.ptr =>
        \A k \in ProgKeys \ {0} :
            LET p == hmap__idx_probe(map, k, k, 0) IN
            p.st = "match" =>
                LET c == Cleared(map, p.i)
                    len == RunLength(c, p.i, 0)
                    run == {BitAnd(p.i + d, c.maxlen) : d \in 0 .. len}
                    r == hmap__idx_del(c, p.i, 0)
                IN
                /\ r.st = "ok"
                /\ r.hdr.len = c.len
                /\ \A s \in 0 .. c.maxlen : s \notin run => r.hdr.keys[s] = c.keys[s]
                /\ \A d \in 1 .. len :
                      LET s == BitAnd(p.i + d, c.maxlen)
                          q == hmap__idx_probe(r.hdr, c.keys[s], c.keys[s], 0)
                      IN
                      /\ q.st = "match"
                      /\ q.i \in {BitAnd(p.i + e, c.maxlen) : e \in 0 .. d}
                      /\ r.hdr.vals[q.i] = c.vals[s]
                      /\ q.i # s => r.hdr.keys[s] # c.keys[s]

\* keys 1, 2, 17 in slots 1, 2, 3: when 1 is removed, 2 stays in its slot
\* and 17, which follows it, is moved to slot 1
C24_Witness ==
    /\ Running32 /\ map.ptr /\ map.maxlen = 15
    /\ map.keys[1] = 1 /\ map.keys[2] = 2 /\ map.keys[3] = 17
    /\ HMAP_DEL(map, 1).b.keys[1] = 17
    /\ HMAP_DEL(map, 1).b.keys[2] = 2
    /\ HMAP_DEL(map, 1).b.keys[3] = 0

(* C25: 32-bit map lookup with del requested returns the index of the slot  *)
(* where the key was matched, the slot that held the deleted key, in every  *)
(* table state in which the key is present.                                 *)
C25_DelReturnsMatch ==
    Running32 /\ map.ptr =>
        \A k \in ProgKeys \ {0} :
            LET p == hmap__idx_probe(map, k, k, 0) IN
            p.st = "match" => hmap__idx(map, k, FALSE, TRUE).ret = p.i

(* C25 as amended: 32-bit map lookup with del requested returns, in every   *)
(* table state in which the key is present, the index of the empty slot     *)
(* that ends the run of occupied slots following the matched slot: an index *)
(* of the table that is never -1 and never the matched slot, so del reports *)
(* true; for an absent key it returns -1.                                   *)
C25_DelReturnsRunEnd ==
    Running32 /\ map.ptr =>
        \A k \in ProgKeys \ {0} :
            LET p == hmap__idx_probe(map, k, k, 0)
                r == hmap__idx(map, k, FALSE, TRUE)
            IN
            /\ p.st = "match" =>
                  /\ r.st = "ok"
                  /\ r.ret = BitAnd(p.i + RunLength(Cleared(map, p.i), p.i, 0) + 1,
                                    map.maxlen)
                  /\ r.ret \in 0 .. map.maxlen
                  /\ r.ret # p.i
                  /\ r.hdr.keys[r.ret] = 0
            /\ p.st = "empty" => r.ret = -1
            /\ HMAP_DEL(map, k).ret <=> p.st = "match"

\* key 1 is matched in slot 1 and two occupied slots follow it: its removal
\* returns 4, the empty slot behind them, not 1
C25_Witness ==
    /\ Running32 /\ map.ptr /\ map.maxlen = 15
    /\ map.keys[1] = 1 /\ map.keys[2] = 17 /\ map.keys[3] = 33 /\ map.keys[4] = 0
    /\ hmap__idx(map, 1, FALSE, TRUE).ret = 4
    /\ HMAP_DEL(map, 1).ret

(* C26: 32-bit map growth terminates for every reserve value: with size_t   *)
(* of width w, for every reserve in 0..2^w-1, those of 2^(w-1)-1 and more   *)
(* included, the capacity loop of hmap__grow ends, and when the doubling    *)
(* overflows it returns the old handle unchanged.                           *)
C26_GrowTerminates ==
    Running32 =>
        \A n \in Args.fit \cup {SizeMod - 1} :
            LET start == IF map.ptr THEN (map.maxlen * 2 + 1) % SizeMod ELSE 15
                g == hmap__grow(map, n, "ok")
            IN
            /\ hmap__grow_max(start, n) # -2
            /\ g.st # "hang"
            /\ IdealMax(start, n) >= SizeMod => g = [b |-> map, st |-> "ok"]

\* the capacity the loop of hmap64__grow aims at, in unbounded integers
RECURSIVE IdealCap(_, _)
IdealCap(c, res) == IF c \div 2 < res THEN IdealCap(c * 2, res) ELSE c

(* C27: map growth detects the overflow of the byte size before it          *)
(* allocates: whenever sizeof(header) + (new_max + 2) * elem_size (32-bit   *)
(* map) or sizeof(header) + (new_cap + 1) * elem_size (64-bit map) is 2^w   *)
(* or more, growth returns the old handle unchanged.                        *)
C27_ByteSizeOverflow ==
    /\ Running32 =>
          \A n \in Args.fit :
              LET ideal == IdealMax(IF map.ptr THEN map.maxlen * 2 + 1 ELSE 15, n) IN
              sizeof_hdr + (ideal + 2) * ElemSize >= SizeMod =>
                  hmap__grow(map, n, "ok") = [b |-> map, st |-> "ok"]
    /\ Running64 =>
          \A n \in Args.fit :
              LET ideal == IdealCap(IF map64.ptr THEN map64.cap * 2 ELSE 16, n) IN
              sizeof_hdr + (ideal + 1) * ElemSize >= SizeMod =>
                  hmap64__grow(map64, n, "ok") = [b |-> map64, st |-> "ok"]

(* C28: try_fit never reports room it does not have: with size_t of width   *)
(* w, for every n in 0..2^w-1, those whose doubling wraps around included,  *)
(* and every allocated map, try_fit(n) returns true only if the unbounded   *)
(* integer 2*n is <= max (32-bit map) or < capacity (64-bit map).           *)
C28_TryFitRoom ==
    /\ Running32 /\ map.ptr =>
          \A n \in Args.fit :
              LET r == HMAP_TRYFIT(map, n, "ok") IN
              r.st = "ok" /\ r.ret => 2 * n <= HMAP_MAX(r.b)
    /\ Running64 /\ map64.ptr =>
          \A n \in Args.fit :
              LET r == HMAP64_TRYFIT(map64, n, "ok") IN
              r.st = "ok" /\ r.ret => 2 * n < HMAP64_CAP(r.b)

(* C29: every lookup terminates: when no allocation fails, in every state   *)
(* reachable by set, del, clear and fit the probe loop of the lookup        *)
(* primitive of either map ends after at most capacity probes for any key,  *)
(* present or absent, and the 32-bit deletion scan over the run following   *)
(* the removed slot ends after at most capacity steps.  (The probe and the  *)
(* scan of the model report "hang" once they have visited every slot.)      *)
C29_LookupTerminates ==
    /\ Running32 /\ map.ptr =>
          \A k \in ProgKeys :
              /\ hmap__idx_probe(map, k, k, 0).st \in {"match", "empty"}
              /\ hmap__idx(map, k, FALSE, TRUE).st = "ok"
              /\ RunLength(map, BitAnd(k, map.maxlen), 0) <= map.maxlen
    /\ Running64 /\ map64.ptr =>
          \A k \in ProgKeys :
              /\ hmap64__idx_probe(map64, k, k, 0).st \in {"match", "empty"}
              /\ hmap64__idx(map64, k, FALSE, TRUE).st = "ok"

\* 15 and 31 both start at the last slot: the probe for 31 wraps around to
\* slot 0, the probe for the absent 47 goes on to the first empty slot, and
\* the scan after the removal of 15 wraps around too
C29_Witness ==
    /\ Running32 /\ map.ptr /\ map.maxlen = 15
    /\ map.keys[15] = 15 /\ map.keys[0] = 31 /\ map.keys[1] = 1 /\ map.keys[2] = 0
    /\ hmap__idx_probe(map, 31, 31, 0) = [st |-> "match", i |-> 0]
    /\ hmap__idx_probe(map, 47, 47, 0) = [st |-> "empty", i |-> 2]
    /\ HMAP_DEL(map, 15).b.keys[15] = 31

(* C30: half-empty table: when no allocation fails, in every state          *)
(* reachable by set, ptr, del, clear and fit on either map, length is at    *)
(* most capacity / 2, so at least half of the slots, and at least one, have *)
(* key 0.                                                                   *)
C30_HalfEmpty ==
    /\ Running32 =>
          /\ HMAP_LEN(map) * 2 <= HMAP_CAP(map)
          /\ map.ptr =>
                LET free == {s \in 0 .. map.maxlen : map.keys[s] = 0} IN
                /\ Cardinality(free) * 2 >= HMAP_CAP(map)
                /\ free # {}
    /\ Running64 =>
          /\ HMAP64_LEN(map64) * 2 <= HMAP64_CAP(map64)
          /\ map64.ptr =>
                LET free == {s \in 0 .. map64.cap - 1 : map64.keys[s] = 0} IN
                /\ Cardinality(free) * 2 >= HMAP64_CAP(map64)
                /\ free # {}

\* a 16 slot table of the 64-bit map with 8 keys and 8 empty slots: the
\* next new key makes it grow first
C30_Witness ==
    /\ Running64 /\ map64.ptr /\ map64.cap = 16 /\ map64.len = 8
    /\ Cardinality({s \in 0 .. 15 : map64.keys[s] = 0}) = 8
    /\ HMAP64_CAP(HMAP64_SET(map64, 9, "a", "ok").b) = 32

====
